---- MODULE Spec2Model ----
(***************************************************************************)
(* A model of the NES picture processing unit of nesoxide                  *)
(* (src/ppu/mod.rs): the register bank, the data port with its read        *)
(* buffer, the name-table mirroring and the scanline/frame clock that      *)
(* raises the NMI.                                                         *)
(*                                                                         *)
(* The register types (Addr, Control, Mask, Scroll, Status) live in        *)
(* src/ppu/registers, which is not part of the sources at hand; their      *)
(* methods are modelled from the written specification and are marked so   *)
(* in the map of the model.                                                *)
(*                                                                         *)
(* Byte arrays ([u8; N], Vec<u8>) are kept as finite maps from the indexes *)
(* that hold a non-default byte to that byte; at(mem, i) reads an index,   *)
(* every other index reads as the array's fill byte 0.  The array length   *)
(* is kept beside it and every index is checked against it, since Rust     *)
(* panics on an index out of bounds.                                       *)
(***************************************************************************)
EXTENDS Integers, Sequences, FiniteSets, TLC

VARIABLES
    chr_rom,        \* pub chr_rom: Vec<u8>           [len, bytes]
    palette_table,  \* pub palette_table: [u8; 32]
    vram,           \* pub vram: [u8; 2048]
    oam_addr,       \* pub oam_addr: u8
    oam_data,       \* pub oam_data: [u8; 256]
    mirroring,      \* pub mirroring: Mirroring
    addr,           \* pub addr: Addr                 [value, write_hi_next]
    ctrl,           \* pub ctrl: Control              raw byte
    mask,           \* pub mask: Mask                 raw byte
    scroll,         \* pub scroll: Scroll             [x, y, write_x_next]
    status,         \* pub status: Status             raw byte
    nmi_interrupt,  \* pub nmi_interrupt: Option<bool>
    buf,            \* buf: u8
    scanline,       \* scanline: u16
    cycles,         \* cycles: usize
    panicked,       \* the call ended in panic!/unimplemented!/an index out of bounds
    op,             \* history: the name of the last operation called
    arg,            \* history: its operand (0 when it has none)
    ret,            \* history: what it returned (0 when it returns nothing)
    rolled,         \* history: the last tick moved on to the next scanline
    total,          \* history: cycles handed to tick since the frame began
    last_write,     \* history: <<address, byte>> of the last write_data that stored a byte
    calls,          \* history: how many write_data, read_data, write_oam_data calls were made
    pair            \* history: the bytes of the write_addr calls made back to back
                    \*          since the latch was last at rest: <<>>, <<h>>, <<h, l>>

vars == <<chr_rom, palette_table, vram, oam_addr, oam_data, mirroring, addr, ctrl,
          mask, scroll, status, nmi_interrupt, buf, scanline, cycles, panicked,
          op, arg, ret, rolled, total, last_write, calls, pair>>

memory == <<chr_rom, palette_table, vram, oam_addr, oam_data, mirroring, buf, last_write>>
timing == <<scanline, cycles, rolled, total>>
ports == <<chr_rom, palette_table, vram, mirroring, buf, last_write>>
oam == <<oam_addr, oam_data>>

-----------------------------------------------------------------------------
(* Bytes and bits.                                                         *)

Byte == 0..255

\* x & (2^n - 1): the low n bits of x
LowBits(x, n) == x % (2 ^ n)

Bit(b, n) == (b \div (2 ^ n)) % 2 = 1
SetBit(b, n) == IF Bit(b, n) THEN b ELSE b + 2 ^ n
ClearBit(b, n) == IF Bit(b, n) THEN b - 2 ^ n ELSE b

\* u8::wrapping_add
wrapping_add(a, b) == (a + b) % 256

\* Option<bool>
None == "None"
SomeTrue == "Some(true)"

\* Byte arrays as finite maps over the indexes that were stored to.
Zeroed == <<>>
at(mem, i) == IF i \in DOMAIN mem THEN mem[i] ELSE 0
store(mem, i, v) == (i :> v) @@ mem

-----------------------------------------------------------------------------
(* Sizes and clock constants of the source.                                *)

PaletteLen == 32
VramLen == 2048
OamLen == 256
EmptyRomLen == 2048
CyclesPerScanline == 341
VblankScanline == 241
ScanlinesPerFrame == 262
FrameCycles == CyclesPerScanline * ScanlinesPerFrame

-----------------------------------------------------------------------------
(* The registers (src/ppu/registers, modelled from the specification).     *)

AddrBits == 14        \* the bus is 14 bits wide: values are masked with 0x3FFF

Addr_new == [value |-> 0, write_hi_next |-> TRUE]
Addr_get(a) == a.value
Addr_update(a, data) ==
    IF a.write_hi_next
    THEN [value |-> LowBits(data * 256 + (a.value % 256), AddrBits),
          write_hi_next |-> FALSE]
    ELSE [value |-> LowBits((a.value \div 256) * 256 + data, AddrBits),
          write_hi_next |-> TRUE]
Addr_increment(a, inc) == [a EXCEPT !.value = LowBits(a.value + inc, AddrBits)]
Addr_reset(a) == [a EXCEPT !.write_hi_next = TRUE]

Control_new == 0
Control_update(c, data) == data
vram_addr_increment(c) == IF Bit(c, 2) THEN 32 ELSE 1
vblank_nmi(c) == Bit(c, 7)

Mask_new == 0
Mask_update(m, data) == data

Scroll_new == [x |-> 0, y |-> 0, write_x_next |-> TRUE]
Scroll_write(s, data) ==
    IF s.write_x_next
    THEN [s EXCEPT !.x = data, !.write_x_next = FALSE]
    ELSE [s EXCEPT !.y = data, !.write_x_next = TRUE]
Scroll_reset_latch(s) == [s EXCEPT !.write_x_next = TRUE]

Status_new == 0
set_vblank_status(s, on) == IF on THEN SetBit(s, 7) ELSE ClearBit(s, 7)
set_sprite_zero_hit(s, on) == IF on THEN SetBit(s, 6) ELSE ClearBit(s, 6)
reset_vblank_status(s) == ClearBit(s, 7)
is_in_vblank(s) == Bit(s, 7)
snapshot(s) == s

-----------------------------------------------------------------------------
(* NESPPU::tick.                                                           *)

\* `if self.cycles < 341 { return false }`: a scanline is over otherwise.
scanline_over_late(c) == ~(c <= CyclesPerScanline)
scanline_over(c) == ~(c < CyclesPerScanline)

\* `if self.scanline == 241`
at_vblank(sl) == sl = VblankScanline

\* `else if self.scanline >= 262`
frame_over_late(sl) == sl > ScanlinesPerFrame
frame_over(sl) == sl >= ScanlinesPerFrame

\* `if self.ctrl.vblank_nmi() { self.nmi_interrupt = Some(true); }`
tick_nmi_always(c, nmi) == SomeTrue
tick_nmi(c, nmi) == IF vblank_nmi(c) THEN SomeTrue ELSE nmi

\* the status register after tick has entered vblank
tick_vblank_status(s) == set_sprite_zero_hit(set_vblank_status(s, TRUE), FALSE)

\* the status register after tick has finished the frame
tick_frame_status(s) == reset_vblank_status(set_sprite_zero_hit(s, FALSE))

\* the interrupt flag after tick has finished the frame
tick_frame_nmi_kept(nmi) == nmi
tick_frame_nmi(nmi) == None

History(o, a) ==
    /\ calls' = IF o \in DOMAIN calls THEN [calls EXCEPT ![o] = @ + 1] ELSE calls
    /\ op' = o
    /\ arg' = a
    /\ pair' = IF o # "write_addr" THEN <<>>
               ELSE IF addr.write_hi_next THEN <<a>>
               ELSE IF Len(pair) = 1 THEN Append(pair, a)
               ELSE <<>>

tick(n) ==
    /\ ~panicked
    /\ History("tick", 0)
    /\ total' = (total + n) % FrameCycles
    /\ LET c1 == cycles + n
           c2 == c1 - CyclesPerScanline
           sl == scanline + 1
       IN  IF ~scanline_over(c1)
           THEN /\ cycles' = c1
                /\ ret' = FALSE
                /\ rolled' = FALSE
                /\ UNCHANGED <<scanline, status, nmi_interrupt>>
           ELSE /\ cycles' = c2
                /\ rolled' = TRUE
                /\ IF at_vblank(sl)
                   THEN /\ scanline' = sl
                        /\ status' = tick_vblank_status(status)
                        /\ nmi_interrupt' = tick_nmi(ctrl, nmi_interrupt)
                        /\ ret' = FALSE
                   ELSE IF frame_over(sl)
                   THEN /\ scanline' = 0
                        /\ nmi_interrupt' = tick_frame_nmi(nmi_interrupt)
                        /\ status' = tick_frame_status(status)
                        /\ ret' = TRUE
                   ELSE /\ scanline' = sl
                        /\ ret' = FALSE
                        /\ UNCHANGED <<status, nmi_interrupt>>
    /\ UNCHANGED <<memory, addr, ctrl, mask, scroll, panicked>>

-----------------------------------------------------------------------------
(* The register bank.                                                      *)

\* `if !start_nmi && self.ctrl.vblank_nmi() && self.status.is_in_vblank()`
write_ctrl_nmi_cancels(start_nmi, c, s, nmi) ==
    IF ~start_nmi /\ vblank_nmi(c) /\ is_in_vblank(s) THEN SomeTrue
    ELSE IF ~vblank_nmi(c) THEN None ELSE nmi
write_ctrl_nmi_level(start_nmi, c, s, nmi) ==
    IF vblank_nmi(c) /\ is_in_vblank(s) THEN SomeTrue ELSE nmi
write_ctrl_nmi(start_nmi, c, s, nmi) ==
    IF ~start_nmi /\ vblank_nmi(c) /\ is_in_vblank(s) THEN SomeTrue ELSE nmi

write_ctrl(value) ==
    /\ ~panicked
    /\ History("write_ctrl", value)
    /\ LET start_nmi == vblank_nmi(ctrl)
           c == Control_update(ctrl, value)
       IN  /\ ctrl' = c
           /\ nmi_interrupt' = write_ctrl_nmi(start_nmi, c, status, nmi_interrupt)
    /\ ret' = 0
    /\ UNCHANGED <<memory, timing, addr, mask, scroll, status, panicked>>

\* the registers read_status leaves behind: [status, addr, scroll]
read_status_effect_keeps_latch(s, a, sc) ==
    [status |-> reset_vblank_status(s),
     addr   |-> a,
     scroll |-> Scroll_reset_latch(sc)]
read_status_effect(s, a, sc) ==
    [status |-> reset_vblank_status(s),
     addr   |-> Addr_reset(a),
     scroll |-> Scroll_reset_latch(sc)]

read_status ==
    /\ ~panicked
    /\ History("read_status", 0)
    /\ LET data == snapshot(status)
           e == read_status_effect(status, addr, scroll)
       IN  /\ status' = e.status
           /\ addr' = e.addr
           /\ scroll' = e.scroll
           /\ ret' = data
    /\ UNCHANGED <<memory, timing, ctrl, mask, nmi_interrupt, panicked>>

\* The driver (outside the PPU) takes a pending interrupt to deliver it.
poll_nmi ==
    /\ ~panicked
    /\ nmi_interrupt # None
    /\ History("poll_nmi", 0)
    /\ nmi_interrupt' = None
    /\ ret' = 0
    /\ UNCHANGED <<memory, timing, addr, ctrl, mask, scroll, status, panicked>>

-----------------------------------------------------------------------------
(* The data port: write_addr, write_data, read_data.                       *)

write_addr(value) ==
    /\ ~panicked
    /\ History("write_addr", value)
    /\ addr' = Addr_update(addr, value)
    /\ ret' = 0
    /\ UNCHANGED <<memory, timing, ctrl, mask, scroll, status, nmi_interrupt, panicked>>

write_mask(value) ==
    /\ ~panicked
    /\ History("write_mask", value)
    /\ mask' = Mask_update(mask, value)
    /\ ret' = 0
    /\ UNCHANGED <<memory, timing, addr, ctrl, scroll, status, nmi_interrupt, panicked>>

write_scroll(value) ==
    /\ ~panicked
    /\ History("write_scroll", value)
    /\ scroll' = Scroll_write(scroll, value)
    /\ ret' = 0
    /\ UNCHANGED <<memory, timing, addr, ctrl, mask, status, nmi_interrupt, panicked>>

\* self.addr.increment(self.ctrl.vram_addr_increment())
increment_vram_addr_unmasked(a, c) == [a EXCEPT !.value = @ + vram_addr_increment(c)]
increment_vram_addr(a, c) == Addr_increment(a, vram_addr_increment(c))

Horizontal == "Horizontal"
Vertical == "Vertical"

\* addr & 0b1011111_1111111: 0x3000-0x3EFF is folded down onto 0x2000-0x2EFF
mirror_down_kept(a) == a
mirror_down(a) == ClearBit(LowBits(a, 14), 12)

\* what the (Mirroring::Horizontal, _) arms take off the index
horizontal_offset_to_first(name_table) == name_table * 1024
horizontal_offset(name_table) ==
    IF name_table = 2 THEN 1024                    \* vram_index - 0x400
    ELSE IF name_table = 1 THEN 1024               \* vram_index - 0x400
    ELSE IF name_table = 3 THEN 2048               \* vram_index - 0x800
    ELSE 0

mirror_vram_addr_two_banks(m, a) == LowBits(mirror_down(a) - 8192, 11)
mirror_vram_addr(m, a) ==
    LET mirrored_vram == mirror_down(a)
        vram_index == mirrored_vram - 8192         \* 0x2000
        name_table == vram_index \div 1024         \* 0x400
    IN  IF m = Vertical /\ name_table \in {2, 3} THEN vram_index - 2048
        ELSE IF m = Horizontal THEN vram_index - horizontal_offset(name_table)
        ELSE vram_index

\* a call of mirror_vram_addr on the operand that is waiting in arg
call_mirror_vram_addr ==
    /\ ~panicked
    /\ History("mirror_vram_addr", arg)
    /\ ret' = mirror_vram_addr(mirroring, arg)
    /\ UNCHANGED <<memory, timing, addr, ctrl, mask, scroll, status, nmi_interrupt,
                   panicked>>

\* The arms of the `match addr` of write_data and read_data.
in_chr_rom(a) == a >= 0 /\ a <= 8191                   \* 0..=0x1FFF
in_vram_and_mirror(a) == a >= 8192 /\ a <= 16127
in_vram(a) == a >= 8192 /\ a <= 12287                  \* 0x2000..=0x2FFF
in_unused(a) == a >= 12288 /\ a <= 16127               \* 0x3000..=0x3EFF
in_palette(a) == a >= 16128 /\ a <= 16383              \* 0x3F00..=0x3FFF
PaletteBase == 16128                                   \* 0x3F00
palette_mirrors == {16144, 16148, 16152, 16156}        \* 0x3F10 | 0x3F14 | 0x3F18 | 0x3F1C

\* the palette_table index write_data stores to
write_palette_index(a) ==
    IF a \in palette_mirrors THEN (a - 16) - PaletteBase ELSE a - PaletteBase

\* the palette_table index read_data loads from
read_palette_index(a) == a - PaletteBase

\* the vram index write_data stores to
write_vram_index_unmirrored(m, a) == a - 8192
write_vram_index(m, a) == mirror_vram_addr(m, a)

\* the address register once write_data has dispatched
write_data_addr_by_one(a, c) == Addr_increment(a, 1)
write_data_addr(a, c) == increment_vram_addr(a, c)

\* the pattern memory once write_data was aimed at it: the arm only prints
write_chr_rom_stores(rom, a, value) == [rom EXCEPT !.bytes = store(@, a, value)]
write_chr_rom(rom, a, value) == rom

\* The arm of the match that takes the address: the first one that matches.
match_arm(a) ==
    IF in_chr_rom(a) THEN "chr_rom"
    ELSE IF in_vram(a) THEN "vram"
    ELSE IF in_unused(a) THEN "unused"
    ELSE IF in_palette(a) THEN "palette"
    ELSE "other"

write_data(value) ==
    /\ ~panicked
    /\ History("write_data", value)
    /\ ret' = 0
    /\ LET a == Addr_get(addr)
           arm == match_arm(a)
           fatal == \/ arm = "unused"
                    \/ arm = "palette" /\ ~(write_palette_index(a) < PaletteLen)
                    \/ arm = "vram" /\ ~(write_vram_index(mirroring, a) < VramLen)
                    \/ arm = "other"
       IN  IF fatal
           THEN /\ panicked' = TRUE
                /\ UNCHANGED <<chr_rom, vram, palette_table, addr, last_write>>
           ELSE /\ panicked' = FALSE
                /\ last_write' = IF arm = "chr_rom" THEN last_write ELSE <<a, value>>
                /\ chr_rom' = IF arm = "chr_rom"
                              THEN write_chr_rom(chr_rom, a, value)
                              ELSE chr_rom
                /\ vram' = IF arm = "vram"
                           THEN store(vram, write_vram_index(mirroring, a), value)
                           ELSE vram
                /\ palette_table' = IF arm = "palette"
                                    THEN store(palette_table, write_palette_index(a), value)
                                    ELSE palette_table
                /\ addr' = write_data_addr(addr, ctrl)
    /\ UNCHANGED <<oam_addr, oam_data, mirroring, buf, timing, ctrl, mask,
                   scroll, status, nmi_interrupt>>

\* what read_data hands back for a buffered range: `let result = self.buf;`
buffered_result(b, fresh) == b

read_data ==
    /\ ~panicked
    /\ History("read_data", 0)
    /\ LET a == Addr_get(addr)
           arm == match_arm(a)
           fatal == \/ arm = "unused"
                    \/ arm = "chr_rom" /\ ~(a < chr_rom.len)
                    \/ arm = "vram" /\ ~(mirror_vram_addr(mirroring, a) < VramLen)
                    \/ arm = "palette" /\ ~(read_palette_index(a) < PaletteLen)
                    \/ arm = "other"
           fresh == IF arm = "chr_rom" THEN at(chr_rom.bytes, a)
                    ELSE at(vram, mirror_vram_addr(mirroring, a))
       IN  /\ addr' = increment_vram_addr(addr, ctrl)
           /\ IF fatal
              THEN /\ panicked' = TRUE
                   /\ ret' = 0
                   /\ UNCHANGED buf
              ELSE /\ panicked' = FALSE
                   /\ IF arm = "palette"
                      THEN /\ ret' = at(palette_table, read_palette_index(a))
                           /\ UNCHANGED buf
                      ELSE /\ ret' = buffered_result(buf, fresh)
                           /\ buf' = fresh
    /\ UNCHANGED <<chr_rom, palette_table, vram, oam_addr, oam_data, mirroring,
                   last_write, timing, ctrl, mask, scroll, status, nmi_interrupt>>

-----------------------------------------------------------------------------
(* The sprite memory port: write_oam_addr, write_oam_data, write_oam_dma,  *)
(* read_oam_data.                                                          *)

\* self.oam_addr.wrapping_add(1)
oam_next_saturating(p) == IF p = 255 THEN 255 ELSE p + 1
oam_next(p) == wrapping_add(p, 1)

\* where the transfer of write_oam_dma begins: at self.oam_addr as it stands
oam_dma_start_at_zero(p) == 0
oam_dma_start(p) == p

write_oam_addr(value) ==
    /\ ~panicked
    /\ History("write_oam_addr", value)
    /\ oam_addr' = value
    /\ ret' = 0
    /\ UNCHANGED <<ports, oam_data, timing, addr, ctrl, mask, scroll, status,
                   nmi_interrupt, panicked>>

write_oam_data(value) ==
    /\ ~panicked
    /\ History("write_oam_data", value)
    /\ ret' = 0
    /\ IF oam_addr < OamLen
       THEN /\ oam_data' = store(oam_data, oam_addr, value)
            /\ oam_addr' = oam_next(oam_addr)
            /\ panicked' = FALSE
       ELSE /\ panicked' = TRUE
            /\ UNCHANGED oam
    /\ UNCHANGED <<ports, timing, addr, ctrl, mask, scroll, status, nmi_interrupt>>

\* for x in data.iter() { oam_data[oam_addr] = *x; oam_addr = oam_addr.wrapping_add(1) }
\* The loop over the elements lo..hi-1 of data, begun in st = <<oam_data,
\* oam_addr>>.  The range is walked in order, first half before second half,
\* so that the evaluation nests no deeper than the logarithm of its length.
RECURSIVE oam_dma_loop(_, _, _, _)
oam_dma_loop(data, st, lo, hi) ==
    IF hi = lo + 1
    THEN <<store(st[1], st[2], data[lo]), oam_next(st[2])>>
    ELSE LET mid == (lo + hi) \div 2
             half == oam_dma_loop(data, st, lo, mid)
         IN  IF half[2] \in Byte THEN oam_dma_loop(data, half, mid, hi) ELSE half

write_oam_dma(data) ==
    /\ ~panicked
    /\ History("write_oam_dma", data)
    /\ ret' = 0
    /\ LET done == oam_dma_loop(data, <<oam_data, oam_dma_start(oam_addr)>>, 0, OamLen)
       IN  /\ oam_data' = done[1]
           /\ oam_addr' = done[2]
    /\ UNCHANGED <<ports, timing, addr, ctrl, mask, scroll, status, nmi_interrupt,
                   panicked>>

read_oam_data ==
    /\ ~panicked
    /\ History("read_oam_data", 0)
    /\ IF oam_addr < OamLen
       THEN /\ ret' = at(oam_data, oam_addr)
            /\ panicked' = FALSE
       ELSE /\ ret' = 0
            /\ panicked' = TRUE
    /\ UNCHANGED <<memory, timing, addr, ctrl, mask, scroll, status, nmi_interrupt>>

-----------------------------------------------------------------------------
(* Construction: NESPPU::new(chr_rom, mirroring).                          *)

constructed(rom, m, st) ==
    /\ chr_rom = rom
    /\ palette_table = Zeroed
    /\ vram = Zeroed
    /\ oam_addr = 0
    /\ oam_data = Zeroed
    /\ mirroring = m
    /\ buf = 0
    /\ addr = Addr_new
    /\ ctrl = Control_new
    /\ mask = Mask_new
    /\ scroll = Scroll_new
    /\ status = st
    /\ scanline = 0
    /\ cycles = 0
    /\ nmi_interrupt = None
    /\ panicked = FALSE
    /\ op = "new"
    /\ ret = 0
    /\ rolled = FALSE
    /\ total = 0
    /\ last_write = <<>>
    /\ calls = [write_data |-> 0, read_data |-> 0, write_oam_data |-> 0]
    /\ pair = <<>>

new(rom, m, st) == constructed(rom, m, st) /\ arg = 0

\* NESPPU::new_empty_rom()
EmptyRom == [len |-> EmptyRomLen, bytes |-> Zeroed]

-----------------------------------------------------------------------------
(* The clock: tick, and the operations that touch what tick touches.       *)

TickCycles == {0, 1, 21, 255}
TimingCtrl == {0, 132}

InitTiming == new(EmptyRom, Horizontal, Status_new)

NextTiming ==
    \/ \E n \in TickCycles : tick(n)
    \/ \E v \in TimingCtrl : write_ctrl(v)
    \/ read_status
    \/ poll_nmi

SpecTiming == InitTiming /\ [][NextTiming]_vars

\* C1: whenever tick has returned, the cycle counter is below 341 and the
\* scanline below 262, whatever ticks and register operations came before.
C1_CounterRanges ==
    /\ cycles >= 0 /\ cycles < CyclesPerScanline
    /\ scanline >= 0 /\ scanline < ScanlinesPerFrame

\* a tick has just returned on the last cycle of the last scanline
C1_Witness == op = "tick" /\ scanline = ScanlinesPerFrame - 1 /\ cycles = CyclesPerScanline - 1

\* C2: tick returns true exactly in the call in which the cycles handed to it
\* reach or cross a multiple of 341 * 262 (the running count, kept modulo the
\* frame length, wraps), every other call returns false; after the call that
\* returns true the scanline is 0, the interrupt flag is unset and the vblank
\* and sprite-zero-hit bits are clear.
C2_FrameComplete ==
    [][op' = "tick" =>
         LET crossed == total' < total
         IN  /\ ret' = crossed
             /\ crossed => /\ scanline' = 0
                           /\ nmi_interrupt' = None
                           /\ ~Bit(status', 7)
                           /\ ~Bit(status', 6)]_vars

\* a tick has just completed a frame that had raised the interrupt
C2_Witness == op = "tick" /\ ret = TRUE /\ scanline = 0 /\ vblank_nmi(ctrl)

VblankStart == CyclesPerScanline * VblankScanline

\* C3: the tick in which the frame's cycle count reaches 341 * 241 sets the
\* vblank bit, clears sprite-zero-hit and raises the interrupt flag exactly
\* when the control register's enable bit is set (leaving the flag as it was
\* otherwise); no other tick sets the vblank bit or raises the flag.
C3_VblankEntry ==
    [][op' = "tick" =>
         IF total < VblankStart /\ total' >= VblankStart
         THEN /\ scanline' = VblankScanline
              /\ Bit(status', 7)
              /\ ~Bit(status', 6)
              /\ (nmi_interrupt' = SomeTrue) <=> vblank_nmi(ctrl)
              /\ ~vblank_nmi(ctrl) => nmi_interrupt' = nmi_interrupt
         ELSE /\ Bit(status', 7) => Bit(status, 7)
              /\ nmi_interrupt' = SomeTrue => nmi_interrupt = SomeTrue]_vars

\* a tick has just entered vblank with interrupts enabled and raised the flag
C3_Witness ==
    /\ op = "tick" /\ rolled /\ scanline = VblankScanline
    /\ vblank_nmi(ctrl) /\ nmi_interrupt = SomeTrue /\ Bit(status, 7)

\* C4 as claimed: no operation of the PPU clears a pending interrupt flag;
\* only the driver does.
C4_OnlyDriverClears ==
    [][nmi_interrupt = SomeTrue /\ op' # "poll_nmi" => nmi_interrupt' = SomeTrue]_vars

\* C4 as amended: a pending interrupt flag stays pending through every
\* operation of the PPU except the tick that completes the frame (the one
\* that returns true), which clears it; besides that only the driver does.
C4_ClearedAtFrameEnd ==
    [][nmi_interrupt = SomeTrue /\ op' # "poll_nmi" /\ ~(op' = "tick" /\ ret' = TRUE)
         => nmi_interrupt' = SomeTrue]_vars

\* the flag, raised at scanline 241, is still pending after later ticks and a
\* read of the status register
C4_Witness ==
    /\ nmi_interrupt = SomeTrue /\ op = "read_status"
    /\ scanline > VblankScanline /\ ~Bit(status, 7)

\* C5: write_ctrl(v) makes v the control register and raises the interrupt flag
\* exactly when the enable bit was clear, is set in v and the vblank bit is set;
\* otherwise it leaves the flag as it was.
C5_WriteCtrl ==
    [][op' = "write_ctrl" =>
         /\ ctrl' = arg'
         /\ nmi_interrupt' =
              IF ~Bit(ctrl, 7) /\ Bit(arg', 7) /\ Bit(status, 7)
              THEN SomeTrue ELSE nmi_interrupt]_vars

\* write_ctrl has just enabled interrupts inside vblank and raised the flag
C5_Witness ==
    /\ op = "write_ctrl" /\ Bit(arg, 7) /\ ctrl = arg
    /\ Bit(status, 7) /\ nmi_interrupt = SomeTrue /\ scanline > VblankScanline

\* C20: in every state reached through tick, write_ctrl, read_status and the
\* driver taking the interrupt, the vblank bit of the status register is set
\* only while the scanline is in 241..261, and the interrupt flag is pending
\* only while the scanline is in 241..261.
C20_VblankWindow ==
    /\ Bit(status, 7) => (scanline >= VblankScanline /\ scanline <= ScanlinesPerFrame - 1)
    /\ nmi_interrupt = SomeTrue
       => (scanline >= VblankScanline /\ scanline <= ScanlinesPerFrame - 1)

\* a tick has returned on the last scanline of the frame with the vblank bit
\* still set and the interrupt still pending
C20_Witness ==
    /\ op = "tick" /\ scanline = ScanlinesPerFrame - 1
    /\ Bit(status, 7) /\ nmi_interrupt = SomeTrue

-----------------------------------------------------------------------------
(* The write latches: the two-write registers and the status read that     *)
(* resets them.  `status` is a public field which the renderer and the     *)
(* tests (test_read_status_resets_vblank) set directly, so the status      *)
(* byte the run starts with is drawn from StatusBytes.                     *)

StatusBytes == {0, 64, 128, 224}
LatchBytes == {5, 35, 99}

InitLatch == \E st \in StatusBytes : new(EmptyRom, Horizontal, st)

NextLatch ==
    \/ \E v \in LatchBytes : write_addr(v)
    \/ \E v \in LatchBytes : write_scroll(v)
    \/ \E v \in LatchBytes : write_mask(v)
    \/ read_status

SpecLatch == InitLatch /\ [][NextLatch]_vars

\* C6: read_status returns the status byte as it was, clears the vblank bit,
\* keeps the other status bits and the two registers' bytes, and puts both
\* write latches at rest: however many write_addr calls came before, the next
\* write_addr sets the high byte and the one after it the low byte.
C6_ReadStatus ==
    [][/\ op' = "read_status" =>
            /\ ret' = status
            /\ ~Bit(status', 7)
            /\ status' % 128 = status % 128
            /\ addr'.write_hi_next /\ addr'.value = addr.value
            /\ scroll'.write_x_next /\ scroll'.x = scroll.x /\ scroll'.y = scroll.y
       /\ op = "read_status" /\ op' = "write_addr" =>
            /\ addr'.value = (arg' % 64) * 256 + (addr.value % 256)
            /\ pair' = <<arg'>>
       /\ Len(pair) = 1 /\ op' = "write_addr" =>
            addr'.value = (addr.value \div 256) * 256 + arg']_vars

\* read_status has just returned a byte with vblank and two more bits set,
\* cleared vblank alone, and found both latches half way through a pair
\* (a high byte and an x offset written, no low byte, no y offset)
C6_Witness ==
    /\ op = "read_status" /\ ret = 224 /\ status = 96
    /\ addr.write_hi_next /\ addr.value = 35 * 256
    /\ scroll.write_x_next /\ scroll.x = 5 /\ scroll.y = 0

-----------------------------------------------------------------------------
(* The data port: runs of at most MaxWrites write_data and MaxReads        *)
(* read_data calls, at addresses built from AddrBytes.                     *)

MaxWrites == 1
MaxReads == 1

AddrBytes == {0, 16, 104, 255}
DataBytes == {102}
DataCtrl == {0, 4}

\* A pattern memory with bytes to tell apart, as long as the empty one.
TileRom == [len |-> EmptyRomLen, bytes |-> (0 :> 17) @@ (1 :> 34) @@ (16 :> 51) @@ (32 :> 68) @@ (255 :> 85)]

InitData == new(TileRom, Horizontal, Status_new)

NextData ==
    \/ \E v \in AddrBytes : write_addr(v)
    \/ \E v \in DataCtrl : write_ctrl(v)
    \/ calls.write_data < MaxWrites /\ \E v \in DataBytes : write_data(v)
    \/ calls.read_data < MaxReads /\ read_data
    \/ read_status

SpecData == InitData /\ [][NextData]_vars

\* C7: two write_addr calls from a latch at rest leave the address register at
\* ((h & 0x3F) << 8) | l; write_addr calls alternate between the two bytes and
\* only read_status puts the latch back at rest; a write_data at an address in
\* 0x2000-0x2FFF returns and stores its byte in vram at the mirrored offset of
\* that address, and nowhere else.
C7_AddressPair ==
    [][/\ Len(pair') = 2 => addr'.value = (pair'[1] % 64) * 256 + pair'[2]
       /\ op' = "write_addr" => addr'.write_hi_next = ~addr.write_hi_next
       /\ op' = "read_status" => addr'.write_hi_next
       /\ op' \notin {"write_addr", "read_status"} =>
            addr'.write_hi_next = addr.write_hi_next
       /\ op' = "write_data" /\ addr.value >= 8192 /\ addr.value <= 12287 =>
            LET off == mirror_vram_addr(mirroring, addr.value)
            IN  /\ ~panicked'
                /\ off >= 0 /\ off < VramLen
                /\ at(vram', off) = arg'
                /\ \A i \in (DOMAIN vram \cup DOMAIN vram') \ {off} :
                       at(vram', i) = at(vram, i)
                /\ palette_table' = palette_table]_vars

\* the bytes 0x68, 0x00 were written to the address register and the
\* write_data that followed stored its byte at 0x2800, offset 0x400 of vram
C7_Witness ==
    /\ op = "write_data" /\ ~panicked /\ arg = 102
    /\ last_write = <<10240, 102>> /\ at(vram, 1024) = 102 /\ addr.value = 10241

\* C8: every write_data and read_data call that returns, the rejected write
\* into 0x0000-0x1FFF too, raises the address register by exactly 1 when bit 2
\* of the control register is clear and by exactly 32 when it is set.
C8_Increment ==
    [][op' \in {"write_data", "read_data"} /\ ~panicked' =>
         addr'.value = addr.value + (IF Bit(ctrl, 2) THEN 32 ELSE 1)]_vars

\* a write_data at 0x0000 was rejected (nothing stored) with the step at 32
C8_Witness ==
    /\ op = "write_data" /\ ~panicked /\ calls.write_data = 1 /\ last_write = <<>>
    /\ Bit(ctrl, 2) /\ addr.value = 32

\* C9: a read_data at an address in 0x0000-0x2FFF returns the byte the read
\* buffer held before the call and refills the buffer with the byte at the
\* address the register held before the increment.
C9_BufferedRead ==
    [][op' = "read_data" /\ addr.value >= 0 /\ addr.value <= 12287 =>
         /\ ~panicked'
         /\ ret' = buf
         /\ buf' = IF addr.value <= 8191
                   THEN at(chr_rom.bytes, addr.value)
                   ELSE at(vram, mirror_vram_addr(mirroring, addr.value))]_vars

C10_Mirrors == {16144, 16148, 16152, 16156}     \* 0x3F10, 0x3F14, 0x3F18, 0x3F1C
C10_Pair(a) == IF a \in C10_Mirrors THEN a - 16 ELSE a
C10_Paired == C10_Mirrors \cup {a - 16 : a \in C10_Mirrors}

\* C10: after a write_data(v) at either address of a palette pair (0x3F10 and
\* 0x3F00, ...), a read_data at either address of that pair returns v.
C10_PaletteAlias ==
    [][/\ op' = "read_data"
       /\ last_write # <<>>
       /\ addr.value \in C10_Paired
       /\ C10_Pair(last_write[1]) = C10_Pair(addr.value)
       => ~panicked' /\ ret' = last_write[2]]_vars

\* C13: every write_data and read_data aimed at 0x3F00-0x3FFF returns and
\* reaches an entry 0..31 of the palette table; none ends in the fatal error.
C13_PaletteTotal ==
    [][(/\ op' \in {"write_data", "read_data"}
        /\ Addr_get(addr) >= 16128 /\ Addr_get(addr) <= 16383)
       => /\ ~panicked'
          /\ op' = "write_data" => write_palette_index(Addr_get(addr)) \in 0..(PaletteLen - 1)
          /\ op' = "read_data" => read_palette_index(Addr_get(addr)) \in 0..(PaletteLen - 1)]_vars

\* C14: no operation changes a byte of the pattern memory, and a write_data
\* aimed at 0x0000-0x1FFF returns, leaves the pattern memory, the internal
\* RAM, the palette table, the sprite memory and the read buffer as they
\* were, and advances the address register by the configured step.
C14_PatternReadOnly ==
    [][/\ chr_rom' = chr_rom
       /\ (op' = "write_data" /\ Addr_get(addr) >= 0 /\ Addr_get(addr) <= 8191)
          => /\ ~panicked'
             /\ UNCHANGED <<vram, palette_table, oam_data, buf>>
             /\ Addr_get(addr') = (Addr_get(addr) + (IF Bit(ctrl, 2) THEN 32 ELSE 1)) % 16384]_vars

\* a write_data of 0x66 aimed at pattern address 0x0010 has returned and the
\* tile byte there is the one the cartridge came with
C14_Witness ==
    /\ op = "write_data" /\ arg = 102 /\ ~panicked
    /\ calls.write_data = 1 /\ last_write = <<>>
    /\ Addr_get(addr) = 17 /\ at(chr_rom.bytes, 16) = 51

\* C19: whatever write_addr, write_data, read_data, write_ctrl and read_status
\* calls were made, with either step, the value of the address register is
\* at most 0x3FFF.
C19_AddrInBus == Addr_get(addr) >= 0 /\ Addr_get(addr) <= 16383

\* a read_data at 0x3FFF with the step of 32 has carried the register past
\* 0x3FFF, round to 0x001F
C19_Witness ==
    /\ op = "read_data" /\ Bit(ctrl, 2) /\ pair = <<>>
    /\ Addr_get(addr) = 31

-----------------------------------------------------------------------------
(* The name tables through the data port, under both mirroring modes.      *)

MaxTableWrites == 1
MaxTableReads == 2
TableBytes == {35, 39, 43, 47}        \* 0x23, 0x27, 0x2B, 0x2F: one per name table
Mirrorings == {Horizontal, Vertical}

InitTables == \E m \in Mirrorings : new(EmptyRom, m, Status_new)

NextTables ==
    \/ \E v \in TableBytes : write_addr(v)
    \/ calls.write_data < MaxTableWrites /\ \E v \in DataBytes : write_data(v)
    \/ calls.read_data < MaxTableReads /\ read_data

SpecTables == InitTables /\ [][NextTables]_vars

\* the name table (0..3) an address of 0x2000-0x2FFF lies in
TableOf(a) == (a - 8192) \div 1024

\* the pairs <<written, read>> of addresses C11 names
C11_Aliased(m, w, r) ==
    \/ m = Horizontal /\ TableOf(w) = 1 /\ r = w - 1024      \* 0x2400+k at 0x2000+k
    \/ m = Horizontal /\ TableOf(w) = 2 /\ r = w + 1024      \* 0x2800+k at 0x2C00+k
    \/ m = Vertical /\ TableOf(w) = 0 /\ r = w + 2048        \* 0x2000+k at 0x2800+k
    \/ m = Vertical /\ TableOf(w) = 3 /\ r = w - 2048        \* 0x2C00+k at 0x2400+k

\* C11: a byte written through the data port at 0x2400+k (0x2800+k) under
\* horizontal mirroring, or at 0x2000+k (0x2C00+k) under vertical mirroring,
\* is what a read_data at 0x2000+k (0x2C00+k), resp. 0x2800+k (0x2400+k),
\* fetches into the read buffer, and the read_data that follows that
\* throwaway read returns it.
C11_TableAliases ==
    [][/\ (/\ op' = "read_data" /\ ~panicked' /\ last_write # <<>>
           /\ C11_Aliased(mirroring, last_write[1], Addr_get(addr)))
          => buf' = last_write[2]
       /\ (/\ op = "read_data" /\ op' = "read_data" /\ ~panicked'
           /\ in_vram(Addr_get(addr)))
          => ret' = buf]_vars

\* under horizontal mirroring a byte went in at 0x2400+k, the address was set
\* to 0x2000+k, and the second of two reads has handed the byte back
C11_Witness ==
    /\ mirroring = Horizontal /\ op = "read_data" /\ ~panicked
    /\ calls.read_data = 2 /\ last_write # <<>>
    /\ TableOf(last_write[1]) = 1
    /\ Addr_get(addr) = last_write[1] - 1024 + 2
    /\ ret = last_write[2] /\ ret # 0

-----------------------------------------------------------------------------
(* The data port around the unused mirror 0x3000-0x3EFF.                   *)

UnusedBytes == {47, 48, 62, 255}      \* 0x2F, 0x30, 0x3E, 0xFF

InitUnused == new(EmptyRom, Horizontal, Status_new)

NextUnused ==
    \/ \E v \in UnusedBytes : write_addr(v)
    \/ calls.write_data < MaxWrites /\ \E v \in DataBytes : write_data(v)
    \/ calls.read_data < MaxReads /\ read_data

SpecUnused == InitUnused /\ [][NextUnused]_vars

\* C12: a write_data or read_data aimed at 0x3000-0x3EFF ends in the fatal
\* error, and no byte of the internal RAM, the palette table, the pattern
\* memory or the sprite memory is different afterwards.
C12_UnusedIsFatal ==
    [][(/\ op' \in {"write_data", "read_data"}
        /\ Addr_get(addr) >= 12288 /\ Addr_get(addr) <= 16127)
       => /\ panicked'
          /\ UNCHANGED <<vram, palette_table, chr_rom, oam_data>>]_vars

\* a byte is in the internal RAM and a read_data at 0x3000-0x3EFF has just
\* ended in the fatal error
C12_Witness ==
    /\ op = "read_data" /\ panicked /\ vram # Zeroed
    /\ Addr_get(addr) - 1 >= 12288 /\ Addr_get(addr) - 1 <= 16127

-----------------------------------------------------------------------------
(* The sprite memory port.                                                 *)

MaxOamWrites == 1
OamAddrBytes == {15, 16, 255}         \* 0x0F, 0x10, 0xFF
OamBytes == {102, 119}                \* 0x66, 0x77

\* the block of test_oam_dma: 0x66 throughout, 0x77 first, 0x88 last
TestBlock == [i \in 0..(OamLen - 1) |-> IF i = 0 THEN 119 ELSE IF i = 255 THEN 136 ELSE 102]
\* a block whose every byte tells its place
RampBlock == [i \in 0..(OamLen - 1) |-> i]
DmaBlocks == {TestBlock, RampBlock}

InitOam == new(EmptyRom, Horizontal, Status_new)

NextOam ==
    \/ \E v \in OamAddrBytes : write_oam_addr(v)
    \/ calls.write_oam_data < MaxOamWrites /\ \E v \in OamBytes : write_oam_data(v)
    \/ \E data \in DmaBlocks : write_oam_dma(data)
    \/ read_oam_data

SpecOam == InitOam /\ [][NextOam]_vars

\* C15: write_oam_dma(block) begun with the sprite pointer at p leaves
\* block[i] at sprite-memory index (p + i) mod 256 for every i in 0..255, and
\* leaves the pointer at p again.
C15_DmaWraps ==
    [][op' = "write_oam_dma"
       => /\ \A i \in 0..255 : at(oam_data', (oam_addr + i) % 256) = arg'[i]
          /\ oam_addr' = oam_addr
          /\ ~panicked']_vars

\* the transfer of test_oam_dma: begun at 0x10, the last byte of the block is
\* at 0x0F, the first at 0x10, and the pointer is at 0x10
C15_Witness ==
    /\ op = "write_oam_dma" /\ oam_addr = 16
    /\ at(oam_data, 15) = 136 /\ at(oam_data, 16) = 119 /\ at(oam_data, 17) = 102

\* C16: write_oam_data(v) with the sprite pointer at p puts v at index p,
\* leaves the other 255 bytes as they were and moves the pointer to
\* (p + 1) mod 256; read_oam_data returns the byte at the pointer and changes
\* nothing, the pointer included.
C16_OamPort ==
    [][/\ op' = "write_oam_data"
          => /\ at(oam_data', oam_addr) = arg'
             /\ \A i \in (0..255) \ {oam_addr} : at(oam_data', i) = at(oam_data, i)
             /\ oam_addr' = (oam_addr + 1) % 256
             /\ ~panicked'
       /\ op' = "read_oam_data"
          => /\ ret' = at(oam_data, oam_addr)
             /\ UNCHANGED <<memory, timing, addr, ctrl, mask, scroll, status,
                            nmi_interrupt, panicked>>]_vars

\* a byte written at 0xFF is the only one in the sprite memory, the pointer
\* was taken back to 0xFF and read_oam_data has returned the byte
C16_Witness ==
    /\ op = "read_oam_data" /\ oam_addr = 255 /\ calls.write_oam_data = 1
    /\ ret = 102 /\ DOMAIN oam_data = {255} /\ at(oam_data, 255) = 102

-----------------------------------------------------------------------------
(* The mirroring function by itself, over the whole of 0x2000-0x3EFF.      *)

MirrorAddrs == 8192..16127            \* 0x2000..=0x3EFF

InitMirror ==
    \E m \in Mirrorings, a \in MirrorAddrs :
        constructed(EmptyRom, m, Status_new) /\ arg = a

NextMirror == call_mirror_vram_addr

SpecMirror == InitMirror /\ [][NextMirror]_vars

\* the place of an address of 0x2000-0x2FFF within its name table
PlaceOf(a) == (a - 8192) % 1024

\* C17, as the specification has it: under horizontal mirroring 0x2400+k and
\* 0x2800+k map where 0x2000+k maps, and 0x2C00+k maps where 0x2400+k maps.
C17_AllAliasFirst ==
    (op = "mirror_vram_addr" /\ mirroring = Horizontal /\ in_vram(arg))
    => /\ TableOf(arg) \in {1, 2}
          => ret = mirror_vram_addr(Horizontal, 8192 + PlaceOf(arg))
       /\ TableOf(arg) = 3
          => ret = mirror_vram_addr(Horizontal, 9216 + PlaceOf(arg))

\* C17: under horizontal mirroring table 1 aliases table 0 and table 3
\* aliases table 2: for every k in 0..0x3FF, 0x2000+k and 0x2400+k map to
\* offset k, and 0x2800+k and 0x2C00+k map to offset 0x400+k.
C17_HorizontalPairs ==
    (op = "mirror_vram_addr" /\ mirroring = Horizontal /\ in_vram(arg))
    => /\ TableOf(arg) \in {0, 1} => ret = PlaceOf(arg)
       /\ TableOf(arg) \in {2, 3} => ret = 1024 + PlaceOf(arg)

\* the function was applied to 0x2FFF, the last byte of table 3, under
\* horizontal mirroring, and gave the last offset of the internal RAM
C17_Witness ==
    /\ op = "mirror_vram_addr" /\ mirroring = Horizontal
    /\ arg = 12287 /\ ret = 2047

\* C18: for every address of 0x2000-0x3EFF and both mirroring modes the
\* function gives an offset in 0..2047; an address of 0x3000-0x3EFF gets the
\* offset of the address 0x1000 below it; an address of table 0 gets its
\* distance from 0x2000.
C18_OffsetInRam ==
    (op = "mirror_vram_addr" /\ arg >= 8192 /\ arg <= 16127)
    => /\ ret \in 0..(VramLen - 1)
       /\ arg >= 12288 => ret = mirror_vram_addr(mirroring, arg - 4096)
       /\ (arg >= 8192 /\ arg <= 9215) => ret = arg - 8192

\* the function was applied to 0x3EFF, the last address of the mirror, under
\* vertical mirroring, and gave the offset 0x6FF that 0x2EFF has
C18_Witness ==
    /\ op = "mirror_vram_addr" /\ mirroring = Vertical
    /\ arg = 16127 /\ ret = 1791

====
